---- MODULE Spec2Model ----
(***************************************************************************)
(* The SSE + JSON-RPC client of src/tests/mcp-funcn-app-test.py            *)
(* (class MCPClient): one owner thread that calls connect() and close(),   *)
(* caller threads that run _rpc() through the convenience operations, and  *)
(* the background listener threads started by connect().                   *)
(*                                                                         *)
(* Strings are modelled by what the code asks of them: a stream line is    *)
(* blank, an "event:" line, a "data:" line or anything else; the content   *)
(* of a data line is a token that is either text that is no JSON, the      *)
(* empty string, a JSON value that is no object, or a JSON object (a       *)
(* function from its keys to their values).                                *)
(***************************************************************************)
EXTENDS Integers, Sequences, FiniteSets, TLC

\* ---------------------------------------------------------------- bounds
MaxIds == 2        \* calls that reach uuid4() in one run
MaxBuf == 2        \* data lines buffered for one event
MaxConnects == 1   \* connect() invocations in one run
MaxReconnects == 2 \* connect() invocations in a run that connects again
MaxContent == 3    \* blocks in the content list of a tools/call result
MaxSeen == 3       \* event: and data: lines between two blank lines
MaxStacks == 2     \* AsyncExitStack objects one MCPClientwithOpenAI instance makes
MaxPolls == 4      \* iterations of the run polling loop
MaxCalls == 2      \* tool calls in one approval request
MaxDocs == 2       \* documents in one search result

\* the main thread calls connect(), the operations and close(); a worker thread
\* calls operations at the same time
Callers == {"main", "worker"}
Listeners == 1..MaxReconnects
Ops == {"initialize", "list_tools"}

\* ---------------------------------------------------------------- values
None == [none |-> TRUE]
NoKey == [absent |-> TRUE]
EmptyObj == [x \in {} |-> x]

\* the keys of the pending table are str(uuid4()); a response id is any JSON value
StrId(n) == [t |-> "str", v |-> n]
ForeignId == [t |-> "str", v |-> 0]      \* a string no call ever generated
ListId == [t |-> "list", v |-> 0]        \* a JSON array: unhashable in Python

ToolLists == {<<>>, <<"search">>}
ResultVals == {[tools |-> tl] : tl \in ToolLists}
ErrorVals == {[code |-> -32601, message |-> "not found"]}

\* endpoint strings: form is "abs" for a path that starts with "/", "rel" for
\* one that does not, "url" for an absolute URL on a host of its own; params are
\* the names of the query parameters after "?", in order
Forms == {"abs", "rel", "url"}
ParamLists == {<<>>, <<"sessionId">>, <<"code">>, <<"barcode">>, <<"sessionId", "code">>}
Text(form, params) == [k |-> "text", form |-> form, params |-> params]
EndpointTexts == {Text(f, ps) : f \in Forms, ps \in ParamLists}
\* the endpoint string of the general stream: "/messages"
TextTokens == {Text("abs", <<>>)}
EmptyToken == [k |-> "empty"]
ScalarToken == [k |-> "scalar"]

Fld(key, val) == IF val = NoKey THEN EmptyObj ELSE (key :> val)
MkObj(i, r, e, p) == Fld("id", i) @@ Fld("result", r) @@ Fld("error", e) @@ Fld("endpoint", p)
ObjToken(o) == [k |-> "obj", o |-> o]

PlainText == Text("abs", <<>>)
\* a response carries a result or an error
Bodies == {<<r, NoKey>> : r \in ResultVals} \cup {<<NoKey, e>> : e \in ErrorVals}
Responses ==
    {MkObj(StrId(n), b[1], b[2], NoKey) : n \in 1..MaxIds, b \in Bodies}
      \cup {MkObj(i, [tools |-> <<>>], NoKey, NoKey) : i \in {ForeignId, ListId}}
EndpointObjs ==
    {MkObj(NoKey, NoKey, NoKey, p) : p \in TextTokens}
      \cup {MkObj(i, NoKey, NoKey, PlainText) : i \in {StrId(n) : n \in 1..MaxIds} \cup {ForeignId}}
DataTokens ==
    TextTokens \cup {EmptyToken, ScalarToken}
      \cup {ObjToken(o) : o \in Responses \cup EndpointObjs}

\* the data of one event: the contents of its data lines, in order; an event of
\* several data lines starts with empty ones
Datas ==
    UNION {{d \in [1..n -> DataTokens] :
              \A i \in 1..(n - 1) : d[i] = EmptyToken} : n \in 1..MaxBuf}
\* the events of a stream: unnamed ones with any data, and events named
\* "endpoint" whose data is text, empty, or (from a server that names every
\* event so) a JSON-RPC response
AllEvents ==
    {<<"none", d>> : d \in Datas}
      \cup {<<"endpoint", <<t>> >> : t \in TextTokens \cup {EmptyToken}}
      \cup {<<"endpoint", <<ObjToken(MkObj(StrId(n), [tools |-> <<>>], NoKey, NoKey))>> >> :
              n \in 1..MaxIds}

\* the rid a data token quotes, 0 when it quotes none
Quoted(tok) ==
    IF tok.k = "obj" /\ "id" \in DOMAIN tok.o /\ tok.o["id"].t = "str"
    THEN tok.o["id"].v ELSE 0
\* a server can quote only the rids it was sent
Events(sentIds) ==
    {ev \in AllEvents : \A i \in 1..Len(ev[2]) : Quoted(ev[2][i]) \in sentIds \cup {0}}

\* the lines of a stream: blank, "event: <name>", "data: <content>", anything else
LineTokens ==
    {PlainText, EmptyToken,
     ObjToken(MkObj(NoKey, NoKey, NoKey, PlainText)),
     ObjToken(MkObj(ForeignId, [tools |-> <<>>], NoKey, NoKey))}
Lines ==
    {[kind |-> "blank"], [kind |-> "other"]}
      \cup {[kind |-> "event", name |-> n] : n \in {"endpoint", "message"}}
      \cup {[kind |-> "data", tok |-> t] : t \in LineTokens}

\* ---------------------------------------------------------------- pure functions
\* base_sse_url is "https://host/api/sse?code=K"; base_sse_url.split("/sse")[0]
Base == [origin |-> "https://host", dir |-> "/api"]

\* "\n".join(buf) is kept as the sequence of the joined parts
Truthy(data) == ~(Len(data) = 1 /\ data[1] = EmptyToken)
\* "code=" in endpoint: a substring test, true of "code=" and of "barcode="
HasCode(data) ==
    \E i \in 1..Len(data) :
        data[i].k = "text" /\ \E j \in 1..Len(data[i].params) :
                                 data[i].params[j] \in {"code", "barcode"}
\* "?" in endpoint
HasQuery(data) == \E i \in 1..Len(data) : data[i].k = "text" /\ data[i].params # <<>>

\* urljoin(base + "/", endpoint): an absolute URL stands for itself, a path that
\* starts with "/" replaces the path of the base, anything else goes below it
FormOf(endpoint) ==
    IF Len(endpoint) = 1 /\ endpoint[1].k = "text" THEN endpoint[1].form ELSE "rel"
Urljoin(base, endpoint) ==
    [origin |-> IF FormOf(endpoint) = "url" THEN "https://other" ELSE base.origin,
     dir |-> IF FormOf(endpoint) = "rel" THEN base.dir ELSE ""]

\* the URL kept in write_url: where urljoin put the endpoint, the endpoint as
\* received, and the separator and value of the appended code parameter
Qualify(endpoint, key) ==
    LET sep == IF key # "" /\ ~HasCode(endpoint)
               THEN (IF HasQuery(endpoint) THEN "&" ELSE "?")
               ELSE ""
    IN [at |-> Urljoin(Base, endpoint), ep |-> endpoint, sep |-> sep,
        code |-> IF sep = "" THEN "" ELSE key]

\* json.loads: blank parts are whitespace, one JSON document is a value,
\* anything else raises JSONDecodeError
NonBlank(data) == SelectSeq(data, LAMBDA t : t # EmptyToken)
IsJson(data) == Len(NonBlank(data)) = 1 /\ NonBlank(data)[1].k \in {"obj", "scalar"}
IsDict(data) == IsJson(data) /\ NonBlank(data)[1].k = "obj"
Loads(data) == NonBlank(data)[1].o

Hashable(idv) == idv.t # "list"

PopKeyAny(pend, idv) == IF pend = {} THEN 0 ELSE CHOOSE n \in pend : TRUE
\* self._pending.pop(obj["id"], None): the key removed, 0 when there is none
PopKey(pend, idv) == IF idv.t = "str" /\ idv.v \in pend THEN idv.v ELSE 0

HandleKindIdFirst(event, data, wurl) ==
    IF event = "endpoint" /\ Truthy(data) /\ wurl = None THEN "endpoint_event"
    ELSE IF ~IsJson(data) THEN "not_json"
    ELSE IF IsDict(data) /\ "id" \in DOMAIN Loads(data) THEN "rpc"
    ELSE IF wurl = None /\ IsDict(data) /\ "endpoint" \in DOMAIN Loads(data)
         THEN "endpoint_json"
    ELSE "ignored"
\* which branch of _handle_sse_event an event takes (lines 56-68)
HandleKind(event, data, wurl) ==
    IF event = "endpoint" /\ Truthy(data) /\ wurl = None THEN "endpoint_event"
    ELSE IF ~IsJson(data) THEN "not_json"
    ELSE IF wurl = None /\ IsDict(data) /\ "endpoint" \in DOMAIN Loads(data)
         THEN "endpoint_json"
    ELSE IF IsDict(data) /\ "id" \in DOMAIN Loads(data) THEN "rpc"
    ELSE "ignored"

\* what line 70 does with the id of the object
PopKind(idv, pend) ==
    IF ~Hashable(idv) THEN "type_error"
    ELSE IF PopKey(pend, idv) # 0 THEN "resolve"
    ELSE "drop"

ListToolsDefault(resp) == <<>>
\* resp.get("result", {}).get("tools", [])
ListTools(resp) ==
    IF "result" \in DOMAIN resp /\ "tools" \in DOMAIN resp["result"]
    THEN resp["result"]["tools"]
    ELSE <<>>

HasErrorNever(result) == FALSE
\* line 105: "error" in result
HasError(result) == "error" \in DOMAIN result

RpcReturnResult(result) == IF "result" \in DOMAIN result THEN result["result"] ELSE NoKey
\* line 107: return result
RpcReturn(result) == result

\* the blocks of a content list: text, structured data, a json block without
\* data, a block without type
Blocks == {[type |-> "text", text |-> "t"],
           [type |-> "json", data |-> [docs |-> 1]],
           [type |-> "json", data |-> [docs |-> 2]],
           [type |-> "json"],
           [text |-> "t"]}
Contents == UNION {[1..n -> Blocks] : n \in 0..MaxContent}
\* the results of a tools/call response: none, one without content, one with
ToolResults == {NoKey, EmptyObj} \cup {[content |-> cl] : cl \in Contents}

\* dict.get(key): None when the key is absent
Get(d, key) == IF key \in DOMAIN d THEN d[key] ELSE None
\* block.get("type") == "json"
IsJsonBlock(block) == "type" \in DOMAIN block /\ block["type"] = "json"

\* lines 121-122: resp.get("result", {}).get("content", [])
CallTool(resp) ==
    IF "result" \in DOMAIN resp /\ "content" \in DOMAIN resp["result"]
    THEN resp["result"]["content"]
    ELSE <<>>

RECURSIVE ScanLast(_, _)
ScanLast(content, i) ==
    IF i = 0 THEN content
    ELSE IF IsJsonBlock(content[i]) THEN Get(content[i], "data")
    ELSE ScanLast(content, i - 1)
SearchLast(content) == ScanLast(content, Len(content))

\* lines 128-131 and 135-138: for block in content, from block i on
RECURSIVE Scan(_, _)
Scan(content, i) ==
    IF i > Len(content) THEN content
    ELSE IF IsJsonBlock(content[i]) THEN Get(content[i], "data")
    ELSE Scan(content, i + 1)
\* lines 125-138: search and search_by_doc_id, from the value call_tool returned
Search(content) == Scan(content, 1)

ToolOps == {"call_tool", "search", "search_by_doc_id"}

\* what the public operation returns from the value _rpc returned
OpReturn(op, resp) ==
    IF op = "list_tools" THEN ListTools(resp)
    ELSE IF op = "call_tool" THEN CallTool(resp)
    ELSE IF op \in {"search", "search_by_doc_id"} THEN Search(CallTool(resp))
    ELSE resp

PostFailsStrict(status) == status > 400
\* line 98: resp.status_code >= 400
PostFails(status) == status >= 400
Statuses == {200, 399, 400, 500}

\* ---------------------------------------------------------------- state
VARIABLES
    function_key,     \* self.function_key ("" is the falsy None)
    write_url,        \* self.write_url
    pending,          \* the keys of self._pending
    holder,           \* the holder dict of each call, by its rid
    stop,             \* self._stop
    listener_thread,  \* self._listener_thread: 0 is None, else the listener
    lst,              \* the listener threads: state (dead: the thread has ended, by
                      \* break, end of stream or an exception), event, buf, place in
                      \* the handler; seen: the event: and data: lines read since the
                      \* previous blank line
    owner,            \* the main thread in connect() and close(); again: the stop
                      \* signal was set already when the close() under way began
    call,             \* the caller threads: place in _rpc, locals, outcome
    nextId,           \* the next value of uuid4()
    sent,             \* rids whose request left in a POST
    regCount,         \* how often each rid was put into the table
    resolved,         \* rids in the order the listener popped them
    timedout,         \* rids whose caller gave up waiting
    closeRaised,      \* a close() raised
    lock              \* the thread inside a "with self._lock" block

\* the state of an MCPClientwithOpenAI instance and of the coroutines that use it
VARIABLES
    connected,        \* self._connected
    session,          \* self.session: 0 is None, else the exit stack it was entered on
    exit_stack,       \* self.exit_stack: 0 is None, else the AsyncExitStack object
    conn_lock,        \* self._lock: "" is unlocked, else the task that holds it
    stacks,           \* the AsyncExitStack objects made so far and what they hold
    task              \* the coroutines: place in connect() or disconnect(), the exit
                      \* stack object their pending await was called on, last result

oaVars == <<connected, session, exit_stack, conn_lock, stacks, task>>

\* the agent run polling loop of tests/foundry_with_mcp.py and one request to
\* the HTTP search endpoints of function_app.py
VARIABLES
    run,              \* the local variable run: the run as last created or fetched
    loop,             \* the polling loop: its place, what it did in this iteration
    http              \* the HTTP function: its place, the request, the response

extVars == <<run, loop, http>>

vars == <<function_key, write_url, pending, holder, stop, listener_thread, lst, owner,
          call, nextId, sent, regCount, resolved, timedout, closeRaised, lock, oaVars,
          extVars>>

\* the state of the MCPClient instance and its threads
mcpVars == <<function_key, write_url, pending, holder, stop, listener_thread, lst, owner,
             call, nextId, sent, regCount, resolved, timedout, closeRaised, lock>>

Free == [kind |-> "free", c |-> "", l |-> 0]
ByCaller(c) == [kind |-> "caller", c |-> c, l |-> 0]
ByListener(l) == [kind |-> "listener", c |-> "", l |-> l]
UnlockKeep(by) == by
\* the end of a "with self._lock" block, by its last statement or by an exception
Unlock(by) == Free

clientVars == <<function_key, write_url, pending, holder, stop, listener_thread>>

Ids == 1..MaxIds
NoHolder == [response |-> NoKey, set |-> FALSE]
IdleCall == [pc |-> "idle", op |-> "", rid |-> 0, httpError |-> FALSE, outcome |-> "",
             result |-> NoKey, resp |-> NoKey, ret |-> NoKey, exc |-> NoKey,
             waited |-> FALSE, afterClose |-> FALSE]
NoListener == [st |-> "none", event |-> "none", buf |-> <<>>, lpc |-> "read",
               ep |-> <<>>, wid |-> 0, obj |-> NoKey, seen |-> <<>>]

\* the client after __init__, for a key and a number of connect() invocations
\* ---------------------------------------------------------------- MCPClientwithOpenAI
\* the coroutines that share one instance
Tasks == {"t1", "t2"}
Stacks == 1..MaxStacks
\* an AsyncExitStack: made by connect(), holding the stdio transport and the
\* session once they are entered on it, closed by aclose()
NoStack == [made |-> FALSE, stdio |-> FALSE, sess |-> FALSE, closed |-> FALSE]
IdleTask == [pc |-> "idle", st |-> 0, res |-> ""]

\* mcp-client_test.py lines 33-41: the fields __init__ sets
InitOpenAI ==
    /\ connected = FALSE
    /\ session = 0
    /\ exit_stack = 0
    /\ conn_lock = ""
    /\ stacks = [k \in Stacks |-> NoStack]
    /\ task = [t \in Tasks |-> IdleTask]

\* ---------------------------------------------------------------- the run polling loop
\* foundry_with_mcp.py line 76: the statuses in which the loop goes on
Polling == {"queued", "in_progress", "requires_action"}
\* the tool calls of a request: MCP tool calls and others, each with its id
ToolCallLists ==
    UNION {[1..n -> {[kind |-> k, id |-> i] : k \in {"mcp", "function"}, i \in 1..MaxCalls}] :
             n \in 0..MaxCalls}
\* a run as the service reports it: required_action is an approval request with
\* its tool calls, another kind of action, or None
Runs ==
    {[status |-> st, action |-> "none", tool_calls |-> <<>>] : st \in Polling \cup {"completed", "failed", "cancelled"}}
      \cup {[status |-> "requires_action", action |-> "outputs", tool_calls |-> <<>>]}
      \cup {[status |-> "requires_action", action |-> "approval", tool_calls |-> tc] :
               tc \in {c \in ToolCallLists : \A i \in DOMAIN c : c[i].id = i}}
NoRun == [status |-> "", action |-> "none", tool_calls |-> <<>>]

InitPoll ==
    /\ run = NoRun
    /\ loop = [pc |-> "create", npolls |-> 0, cancelled |-> FALSE, submitted |-> <<>>]

\* ---------------------------------------------------------------- the HTTP search endpoints
\* what a tool function returns: nothing yet, a str (JSON text) or an HttpResponse object
NoRet == [type |-> "none", json |-> "none", n |-> 0, status |-> 0]

IdleHttp ==
    [pc |-> "idle", ep |-> "", shape |-> "", arg |-> "", emb |-> "", param |-> "",
     backend |-> FALSE, results |-> -1, ret |-> NoRet, status |-> 0,
     body |-> [json |-> "none", n |-> 0]]


InitWith(key, budget) ==
    /\ function_key = key
    /\ write_url = None
    /\ pending = {}
    /\ holder = [n \in Ids |-> NoHolder]
    /\ stop = FALSE
    /\ listener_thread = 0
    /\ lst = [l \in Listeners |-> NoListener]
    /\ owner = [pc |-> "idle", elapsed |-> FALSE, res |-> "", nconnects |-> 0,
                again |-> FALSE, budget |-> budget]
    /\ call = [c \in Callers |-> IdleCall]
    /\ nextId = 1
    /\ sent = {}
    /\ regCount = [n \in Ids |-> 0]
    /\ resolved = <<>>
    /\ timedout = {}
    /\ closeRaised = FALSE
    /\ lock = Free
    /\ InitOpenAI
    /\ InitPoll
    /\ http = IdleHttp

\* line 148: MCPClient(sse_url, function_key=FUNCTION_KEY)
Init == InitWith("XYZ", MaxConnects)

\* ---------------------------------------------------------------- connect / close
\* line 44: the thread object is assigned
ConnectCreate ==
    /\ owner.pc = "idle"
    /\ call["main"].pc \in {"idle", "done"}
    /\ owner.nconnects < owner.budget
    /\ listener_thread' = owner.nconnects + 1
    /\ lst' = [lst EXCEPT ![owner.nconnects + 1].st = "created"]
    /\ owner' = [owner EXCEPT !.pc = "c45", !.nconnects = @ + 1, !.elapsed = FALSE]
    /\ UNCHANGED <<oaVars, extVars, function_key, write_url, pending, holder, stop, call, nextId, sent,
                   regCount, resolved, timedout, closeRaised, lock>>

\* line 45: start()
ConnectStart ==
    /\ owner.pc = "c45"
    /\ lst' = [lst EXCEPT ![listener_thread].st = "started"]
    /\ owner' = [owner EXCEPT !.pc = "poll"]
    /\ UNCHANGED <<oaVars, extVars, function_key, write_url, pending, holder, stop, listener_thread, call,
                   nextId, sent, regCount, resolved, timedout, closeRaised, lock>>

\* time.time() - start reaches handshake_timeout
HandshakeElapse ==
    /\ owner.pc = "poll"
    /\ ~owner.elapsed
    /\ owner' = [owner EXCEPT !.elapsed = TRUE]
    /\ UNCHANGED <<oaVars, extVars, function_key, write_url, pending, holder, stop, listener_thread, lst,
                   call, nextId, sent, regCount, resolved, timedout, closeRaised, lock>>

PollForever(wurl, elapsed) == wurl = None
\* line 49: while self.write_url is None and (time.time() - start) < handshake_timeout
PollAgain(wurl, elapsed) == wurl = None /\ ~elapsed

HandshakeFailedOnElapsed(wurl, elapsed) == elapsed
\* line 51: if self.write_url is None
HandshakeFailed(wurl, elapsed) == wurl = None

\* line 49: the loop condition is false
ConnectPollExit ==
    /\ owner.pc = "poll"
    /\ ~PollAgain(write_url, owner.elapsed)
    /\ owner' = [owner EXCEPT !.pc = "c51"]
    /\ UNCHANGED <<oaVars, extVars, function_key, write_url, pending, holder, stop, listener_thread, lst,
                   call, nextId, sent, regCount, resolved, timedout, closeRaised, lock>>

\* lines 51-52
ConnectCheck ==
    /\ owner.pc = "c51"
    /\ owner' = [owner EXCEPT !.pc = "idle", !.elapsed = FALSE,
                              !.res = IF HandshakeFailed(write_url, owner.elapsed)
                                     THEN "HandshakeTimeout" ELSE "ok"]
    /\ UNCHANGED <<oaVars, extVars, function_key, write_url, pending, holder, stop, listener_thread, lst,
                   call, nextId, sent, regCount, resolved, timedout, closeRaised, lock>>

CloseStopToggle(s) == ~s
\* line 141: self._stop.set()
CloseStop(s) == TRUE

CloseSet ==
    /\ owner.pc = "idle"
    /\ call["main"].pc \in {"idle", "done"}
    /\ stop' = CloseStop(stop)
    /\ owner' = [owner EXCEPT !.pc = "c142", !.again = stop]
    /\ UNCHANGED <<oaVars, extVars, function_key, write_url, pending, holder, listener_thread, lst, call,
                   nextId, sent, regCount, resolved, timedout, closeRaised, lock>>

JoinUnbounded(t) == IF t = 0 THEN TRUE ELSE lst[t].st = "dead"
\* line 143: join(timeout=1) returns after at most a second, for any thread
JoinReturns(t) == TRUE

\* lines 142-143: join(timeout=1) returns whether or not the thread has ended;
\* it raises RuntimeError on a thread that was never started
CloseJoin ==
    /\ owner.pc = "c142"
    /\ JoinReturns(listener_thread)
    /\ owner' = [owner EXCEPT !.pc = "idle", !.again = FALSE]
    /\ closeRaised' = (closeRaised \/
                        (listener_thread # 0 /\ lst[listener_thread].st = "created"))
    /\ UNCHANGED <<oaVars, extVars, function_key, write_url, pending, holder, stop, listener_thread, lst,
                   call, nextId, sent, regCount, resolved, timedout, lock>>

\* ---------------------------------------------------------------- the listener
KeepEvent(e) == e
\* line 38: event, buf = None, []
ResetEvent(e) == "none"

\* lines 21-27: the GET succeeds and the loop starts
ListenerOpen(l) ==
    /\ lst[l].st = "started"
    /\ lst' = [lst EXCEPT ![l].st = "running"]
    /\ UNCHANGED <<oaVars, extVars, function_key, write_url, pending, holder, stop, listener_thread, owner,
                   call, nextId, sent, regCount, resolved, timedout, closeRaised, lock>>

\* the GET or raise_for_status() raises, or the stream ends or fails while
\* iter_lines() waits for a line: the thread ends
ListenerStreamOver(l) ==
    /\ \/ lst[l].st = "started"
       \/ lst[l].st = "running" /\ lst[l].lpc = "read"
    /\ lst' = [lst EXCEPT ![l].st = "dead"]
    /\ UNCHANGED <<oaVars, extVars, function_key, write_url, pending, holder, stop, listener_thread, owner,
                   call, nextId, sent, regCount, resolved, timedout, closeRaised, lock>>

\* lines 54-69 for the event (event, data): the branch is chosen; on the
\* JSON-RPC branch the thread enters "with self._lock"
Dispatch(l, event, data) ==
    LET kind == HandleKind(event, data, write_url)
    IN /\ kind = "rpc" => lock = Free
       /\ lock' = IF kind = "rpc" THEN ByListener(l) ELSE lock
       /\ lst' = [lst EXCEPT ![l] =
              IF kind = "endpoint_event"
              THEN [@ EXCEPT !.event = ResetEvent(@), !.buf = <<>>, !.seen = <<>>,
                             !.lpc = "seturl", !.ep = data]
              ELSE IF kind = "endpoint_json"
                   THEN [@ EXCEPT !.event = ResetEvent(@), !.buf = <<>>, !.seen = <<>>,
                                  !.lpc = "seturl", !.ep = <<Loads(data)["endpoint"]>>]
              ELSE IF kind = "rpc"
                   THEN [@ EXCEPT !.event = ResetEvent(@), !.buf = <<>>, !.seen = <<>>,
                                  !.lpc = "pop", !.obj = Loads(data)]
              ELSE [@ EXCEPT !.event = ResetEvent(@), !.buf = <<>>, !.seen = <<>>]]

StopIgnored(s) == FALSE
\* line 29: self._stop.is_set(), tested for every line the loop is given
StopSeen(s) == s

\* lines 28-43: one line of the stream
ReadLine(l, line) ==
    /\ lst[l].st = "running"
    /\ lst[l].lpc = "read"
    /\ IF StopSeen(stop)
       THEN /\ lst' = [lst EXCEPT ![l].st = "dead"]
            /\ UNCHANGED lock
       ELSE CASE line.kind = "blank" /\ lst[l].buf # <<>> ->
                   Dispatch(l, lst[l].event, lst[l].buf)
              [] line.kind = "blank" /\ lst[l].buf = <<>> ->
                   /\ lst' = [lst EXCEPT ![l].event = ResetEvent(@), ![l].seen = <<>>]
                   /\ UNCHANGED lock
              [] line.kind = "event" ->
                   /\ Len(lst[l].seen) < MaxSeen
                   /\ lst' = [lst EXCEPT ![l].event = line.name,
                                          ![l].seen = Append(@, line)]
                   /\ UNCHANGED lock
              [] line.kind = "data" ->
                   /\ Len(lst[l].buf) < MaxBuf
                   /\ Len(lst[l].seen) < MaxSeen
                   /\ lst' = [lst EXCEPT ![l].buf = Append(@, line.tok),
                                          ![l].seen = Append(@, line)]
                   /\ UNCHANGED lock
              [] OTHER ->
                   UNCHANGED <<lst, lock>>
    /\ UNCHANGED <<oaVars, extVars, function_key, write_url, pending, holder, stop, listener_thread, owner,
                   call, nextId, sent, regCount, resolved, timedout, closeRaised>>

\* lines 28-39 at the blank line that ends an event, with the event name and the
\* data lines that the loop has gathered since the previous blank line
ReadEvent(l, event, data) ==
    /\ lst[l].st = "running"
    /\ lst[l].lpc = "read"
    /\ lst[l].buf = <<>>
    /\ IF StopSeen(stop)
       THEN /\ lst' = [lst EXCEPT ![l].st = "dead"]
            /\ UNCHANGED lock
       ELSE Dispatch(l, event, data)
    /\ UNCHANGED <<oaVars, extVars, function_key, write_url, pending, holder, stop, listener_thread, owner,
                   call, nextId, sent, regCount, resolved, timedout, closeRaised>>

\* lines 57 and 65: self.write_url = self._qualify_endpoint(...)
SetUrl(l) ==
    /\ lst[l].st = "running"
    /\ lst[l].lpc = "seturl"
    /\ write_url' = Qualify(lst[l].ep, function_key)
    /\ lst' = [lst EXCEPT ![l].lpc = "read", ![l].ep = <<>>]
    /\ UNCHANGED <<oaVars, extVars, function_key, pending, holder, stop, listener_thread, owner, call,
                   nextId, sent, regCount, resolved, timedout, closeRaised, lock>>

\* line 70 and the end of the with block: the pop. An unhashable id raises
\* TypeError, which leaves the with block and ends the thread
Pop(l) ==
    LET idv == lst[l].obj["id"]
        kind == PopKind(idv, pending)
        key == PopKey(pending, idv)
    IN /\ lst[l].st = "running"
       /\ lst[l].lpc = "pop"
       /\ lock = ByListener(l)
       /\ lock' = Unlock(lock)
       /\ pending' = IF kind = "resolve" THEN pending \ {key} ELSE pending
       /\ resolved' = IF kind = "resolve" THEN Append(resolved, key) ELSE resolved
       /\ lst' = [lst EXCEPT ![l] =
              IF kind = "type_error" THEN [@ EXCEPT !.st = "dead"]
              ELSE IF kind = "resolve" THEN [@ EXCEPT !.lpc = "store", !.wid = key]
              ELSE [@ EXCEPT !.lpc = "miss", !.obj = NoKey,
                             !.wid = IF idv.t = "str" THEN idv.v ELSE 0]]
       /\ UNCHANGED <<oaVars, extVars, function_key, write_url, holder, stop, listener_thread, owner, call,
                      nextId, sent, regCount, timedout, closeRaised>>

\* line 71: waiter is None, the handler returns; wid is the rid that the dropped
\* response quoted, 0 when it quoted none
HandlerReturn(l) ==
    /\ lst[l].st = "running"
    /\ lst[l].lpc = "miss"
    /\ lst' = [lst EXCEPT ![l].lpc = "read", ![l].wid = 0]
    /\ UNCHANGED <<oaVars, extVars, function_key, write_url, pending, holder, stop, listener_thread, owner, call,
                   nextId, sent, regCount, resolved, timedout, closeRaised, lock>>

StoredNothing(obj) == NoKey
\* line 72: the value assigned to waiter["response"]
StoredResponse(obj) == obj

\* line 72: waiter["response"] = obj
StoreResponse(l) ==
    /\ lst[l].st = "running"
    /\ lst[l].lpc = "store"
    /\ holder' = [holder EXCEPT ![lst[l].wid].response = StoredResponse(lst[l].obj)]
    /\ lst' = [lst EXCEPT ![l].lpc = "signal"]
    /\ UNCHANGED <<oaVars, extVars, function_key, write_url, pending, stop, listener_thread, owner, call,
                   nextId, sent, regCount, resolved, timedout, closeRaised, lock>>

\* line 73: waiter["event"].set()
Signal(l) ==
    /\ lst[l].st = "running"
    /\ lst[l].lpc = "signal"
    /\ holder' = [holder EXCEPT ![lst[l].wid].set = TRUE]
    /\ lst' = [lst EXCEPT ![l].lpc = "read", ![l].wid = 0, ![l].obj = NoKey]
    /\ UNCHANGED <<oaVars, extVars, function_key, write_url, pending, stop, listener_thread, owner, call,
                   nextId, sent, regCount, resolved, timedout, closeRaised, lock>>

\* ---------------------------------------------------------------- _rpc
NewRidConstant(n) == 1
\* line 86: rid = str(uuid.uuid4()), a value never seen before
NewRid(n) == n

\* close() has returned at least once: the stop signal is set and the owner is
\* not inside its first close()
ClosedOnce == stop /\ (owner.pc # "c142" \/ owner.again)

NotConnectedNever(wurl) == FALSE
\* line 84: self.write_url is None
NotConnected(wurl) == wurl = None

\* lines 84-89: up to the entry into "with self._lock"
CallStart(c) ==
    /\ call[c].pc \in {"idle", "done"}
    /\ c = "main" => owner.pc = "idle"
    /\ IF NotConnected(write_url)
       THEN /\ call' = [call EXCEPT ![c] = [IdleCall EXCEPT !.pc = "done",
                                                         !.outcome = "NotConnected"]]
            /\ UNCHANGED <<nextId, lock>>
       ELSE /\ nextId <= MaxIds
            /\ lock = Free
            /\ call' = [call EXCEPT ![c] = [IdleCall EXCEPT !.pc = "reg",
                                                         !.rid = NewRid(nextId),
                                                         !.afterClose = ClosedOnce]]
            /\ nextId' = nextId + 1
            /\ lock' = ByCaller(c)
    /\ UNCHANGED <<oaVars, extVars, function_key, write_url, pending, holder, stop, listener_thread, lst,
                   owner, sent, regCount, resolved, timedout, closeRaised>>

RegisterSkip(pend, rid) == pend
\* line 90: self._pending[rid] = holder
RegisterInsert(pend, rid) == pend \cup {rid}

\* line 90 and the end of the with block
Register(c) ==
    /\ call[c].pc = "reg"
    /\ lock = ByCaller(c)
    /\ lock' = Unlock(lock)
    /\ pending' = RegisterInsert(pending, call[c].rid)
    /\ regCount' = [regCount EXCEPT ![call[c].rid] = @ + 1]
    /\ call' = [call EXCEPT ![c].pc = "post"]
    /\ UNCHANGED <<oaVars, extVars, function_key, write_url, holder, stop, listener_thread, lst, owner,
                   nextId, sent, resolved, timedout, closeRaised>>

\* line 97: the request leaves
PostSend(c) ==
    /\ call[c].pc = "post"
    /\ sent' = sent \cup {call[c].rid}
    /\ call' = [call EXCEPT ![c].pc = "posting"]
    /\ UNCHANGED <<oaVars, extVars, function_key, write_url, pending, holder, stop, listener_thread, lst,
                   owner, nextId, regCount, resolved, timedout, closeRaised, lock>>

\* line 97: post() raises (connection error, timeout)
PostRaise(c) ==
    /\ call[c].pc \in {"post", "posting"}
    /\ call' = [call EXCEPT ![c].pc = "done", ![c].outcome = "RequestException"]
    /\ UNCHANGED <<oaVars, extVars, function_key, write_url, pending, holder, stop, listener_thread, lst,
                   owner, nextId, sent, regCount, resolved, timedout, closeRaised, lock>>

\* lines 97-99: the HTTP response of the POST
PostReturn(c, status) ==
    /\ call[c].pc = "posting"
    /\ call' = [call EXCEPT ![c] =
                  IF PostFails(status)
                  THEN [@ EXCEPT !.pc = "done", !.httpError = (status >= 400),
                                 !.outcome = "TransportError"]
                  ELSE [@ EXCEPT !.pc = "wait", !.httpError = (status >= 400),
                                 !.waited = TRUE]]
    /\ UNCHANGED <<oaVars, extVars, function_key, write_url, pending, holder, stop, listener_thread, lst,
                   owner, nextId, sent, regCount, resolved, timedout, closeRaised, lock>>

\* lines 100, 104-107: evt.wait() returns True. Nothing in _rpc depends on the
\* operation that called it, so the operation is named where its result is made
WaitSignalled(c, op) ==
    /\ call[c].pc = "wait"
    /\ holder[call[c].rid].set
    /\ LET result == holder[call[c].rid].response
       IN call' = [call EXCEPT ![c] =
                     IF HasError(result)
                     THEN [@ EXCEPT !.pc = "done", !.outcome = "RemoteError", !.op = op,
                                    !.result = result, !.exc = result["error"]]
                     ELSE [@ EXCEPT !.pc = "done", !.outcome = "return", !.op = op,
                                    !.result = result,
                                    !.resp = RpcReturn(result),
                                    !.ret = OpReturn(op, RpcReturn(result))]]
    /\ UNCHANGED <<oaVars, extVars, function_key, write_url, pending, holder, stop, listener_thread, lst,
                   owner, nextId, sent, regCount, resolved, timedout, closeRaised, lock>>

\* line 100: evt.wait() returns False after self.timeout; the flag is not set
\* at that moment
WaitTimeout(c) ==
    /\ call[c].pc = "wait"
    /\ ~holder[call[c].rid].set
    /\ call' = [call EXCEPT ![c].pc = "expired"]
    /\ UNCHANGED <<oaVars, extVars, function_key, write_url, pending, holder, stop, listener_thread, lst,
                   owner, nextId, sent, regCount, resolved, timedout, closeRaised, lock>>

\* line 101: the thread enters "with self._lock", which it may have to wait for
TimeoutLock(c) ==
    /\ call[c].pc = "expired"
    /\ lock = Free
    /\ lock' = ByCaller(c)
    /\ call' = [call EXCEPT ![c].pc = "tmo"]
    /\ UNCHANGED <<oaVars, extVars, function_key, write_url, pending, holder, stop, listener_thread, lst,
                   owner, nextId, sent, regCount, resolved, timedout, closeRaised>>

TimeoutKeep(pend, rid) == pend
\* line 102: self._pending.pop(rid, None)
TimeoutPop(pend, rid) == pend \ {rid}

TimeoutErrorClosed(stopped) == IF stopped THEN "Closed" ELSE "RpcTimeout"
\* line 103: raise MCPClientError("Timeout waiting for response to ...")
TimeoutError(stopped) == "RpcTimeout"

\* lines 102-103
TimeoutRaise(c) ==
    /\ call[c].pc = "tmo"
    /\ lock = ByCaller(c)
    /\ lock' = Unlock(lock)
    /\ pending' = TimeoutPop(pending, call[c].rid)
    /\ call' = [call EXCEPT ![c].pc = "done", ![c].outcome = TimeoutError(stop)]
    /\ timedout' = timedout \cup {call[c].rid}
    /\ UNCHANGED <<oaVars, extVars, function_key, write_url, holder, stop, listener_thread, lst, owner,
                   nextId, sent, regCount, resolved, closeRaised>>

\* ---------------------------------------------------------------- specification
Next ==
    \/ ConnectCreate
    \/ ConnectStart
    \/ HandshakeElapse
    \/ ConnectPollExit
    \/ ConnectCheck
    \/ CloseSet
    \/ CloseJoin
    \/ \E l \in Listeners : ListenerOpen(l)
    \/ \E l \in Listeners : ListenerStreamOver(l)
    \/ \E l \in Listeners : \E ev \in Events(sent) : ReadEvent(l, ev[1], ev[2])
    \/ \E l \in Listeners : SetUrl(l)
    \/ \E l \in Listeners : Pop(l)
    \/ \E l \in Listeners : HandlerReturn(l)
    \/ \E l \in Listeners : StoreResponse(l)
    \/ \E l \in Listeners : Signal(l)
    \/ \E c \in Callers : CallStart(c)
    \/ \E c \in Callers : Register(c)
    \/ \E c \in Callers : PostSend(c)
    \/ \E c \in Callers : PostRaise(c)
    \/ \E c \in Callers, status \in Statuses : PostReturn(c, status)
    \/ \E c \in Callers, op \in Ops : WaitSignalled(c, op)
    \/ \E c \in Callers : WaitTimeout(c)
    \/ \E c \in Callers : TimeoutLock(c)
    \/ \E c \in Callers : TimeoutRaise(c)

Spec == Init /\ [][Next]_vars

\* time passes and running threads run: the window of connect() and the timeout
\* of evt.wait() elapse, and a thread inside a with block or past a test goes on
Fairness ==
    /\ WF_vars(HandshakeElapse)
    /\ WF_vars(ConnectPollExit)
    /\ WF_vars(ConnectCheck)
    /\ \A l \in Listeners : WF_vars(Pop(l))
    /\ \A c \in Callers : WF_vars(Register(c))
    /\ \A c \in Callers : WF_vars(WaitTimeout(c))
    /\ \A c \in Callers : WF_vars(TimeoutLock(c))
    /\ \A c \in Callers : WF_vars(TimeoutRaise(c))

SpecFair == Spec /\ Fairness

\* a client that is connected again: each stream announces the endpoint of its
\* own session, by a named event or inside a JSON object
SessionTexts == {Text("abs", <<>>), Text("abs", <<"sessionId">>)}
ReconnectEvents ==
    {<<"endpoint", <<t>> >> : t \in SessionTexts}
      \cup {<<"none", <<ObjToken(MkObj(NoKey, NoKey, NoKey, t))>> >> : t \in SessionTexts}

InitReconnect == InitWith("XYZ", MaxReconnects)

NextReconnect ==
    \/ ConnectCreate
    \/ ConnectStart
    \/ HandshakeElapse
    \/ ConnectPollExit
    \/ ConnectCheck
    \/ CloseSet
    \/ CloseJoin
    \/ \E l \in Listeners : ListenerOpen(l)
    \/ \E l \in Listeners : ListenerStreamOver(l)
    \/ \E l \in Listeners : \E ev \in ReconnectEvents : ReadEvent(l, ev[1], ev[2])
    \/ \E l \in Listeners : SetUrl(l)

SpecReconnect == InitReconnect /\ [][NextReconnect]_vars

\* endpoint qualification: a client with or without a function key whose stream
\* announces any of the endpoint strings, by either discovery path
Keys == {"", "XYZ"}
QualifyEvents ==
    {<<"endpoint", <<t>> >> : t \in EndpointTexts}
      \cup {<<"none", <<ObjToken(MkObj(NoKey, NoKey, NoKey, t))>> >> : t \in EndpointTexts}

InitQualify == \E key \in Keys : InitWith(key, MaxConnects)

NextQualify ==
    \/ ConnectCreate
    \/ ConnectStart
    \/ HandshakeElapse
    \/ ConnectPollExit
    \/ ConnectCheck
    \/ CloseSet
    \/ CloseJoin
    \/ \E l \in Listeners : ListenerOpen(l)
    \/ \E l \in Listeners : ListenerStreamOver(l)
    \/ \E l \in Listeners : \E ev \in QualifyEvents : ReadEvent(l, ev[1], ev[2])
    \/ \E l \in Listeners : SetUrl(l)

SpecQualify == InitQualify /\ [][NextQualify]_vars

\* the tool operations: the client is connected, the main thread is inside a
\* tool operation and the listener has stored and signalled the response
InitSearch ==
    /\ function_key = "XYZ"
    /\ write_url = Qualify(<<PlainText>>, "XYZ")
    /\ pending = {}
    /\ \E r \in ToolResults :
          holder = [n \in Ids |->
                      IF n = 1 THEN [response |-> MkObj(StrId(1), r, NoKey, NoKey),
                                     set |-> TRUE]
                      ELSE NoHolder]
    /\ stop = FALSE
    /\ listener_thread = 1
    /\ lst = [l \in Listeners |->
                IF l = 1 THEN [NoListener EXCEPT !.st = "running"] ELSE NoListener]
    /\ owner = [pc |-> "idle", elapsed |-> FALSE, res |-> "ok", nconnects |-> 1,
                again |-> FALSE, budget |-> 1]
    /\ call = [c \in Callers |->
                 IF c = "main" THEN [IdleCall EXCEPT !.pc = "wait", !.rid = 1,
                                                     !.waited = TRUE]
                 ELSE IdleCall]
    /\ nextId = 2
    /\ sent = {1}
    /\ regCount = [n \in Ids |-> IF n = 1 THEN 1 ELSE 0]
    /\ resolved = <<1>>
    /\ timedout = {}
    /\ closeRaised = FALSE
    /\ lock = Free
    /\ InitOpenAI
    /\ InitPoll
    /\ http = IdleHttp

NextSearch == \E op \in ToolOps : WaitSignalled("main", op)

SpecSearch == InitSearch /\ [][NextSearch]_vars

\* discovery by a JSON object: streams whose events, named endpoint or unnamed,
\* carry objects with an endpoint key, with and without an id
EndpointPayloads ==
    {ObjToken(MkObj(i, NoKey, NoKey, PlainText)) :
        i \in {NoKey, ForeignId} \cup {StrId(n) : n \in 1..MaxIds}}
DiscoveryEvents(sentIds) ==
    {ev \in ({"none", "endpoint"} \X {<<t>> : t \in EndpointPayloads \cup {PlainText}}) :
        Quoted(ev[2][1]) \in sentIds \cup {0}}

NextDiscovery ==
    \/ ConnectCreate
    \/ ConnectStart
    \/ HandshakeElapse
    \/ ConnectPollExit
    \/ ConnectCheck
    \/ CloseSet
    \/ CloseJoin
    \/ \E l \in Listeners : ListenerOpen(l)
    \/ \E l \in Listeners : ListenerStreamOver(l)
    \/ \E l \in Listeners : \E ev \in DiscoveryEvents(sent) : ReadEvent(l, ev[1], ev[2])
    \/ \E l \in Listeners : SetUrl(l)
    \/ \E l \in Listeners : Pop(l)
    \/ \E l \in Listeners : HandlerReturn(l)
    \/ \E l \in Listeners : StoreResponse(l)
    \/ \E l \in Listeners : Signal(l)
    \/ \E c \in Callers : CallStart(c)
    \/ \E c \in Callers : Register(c)
    \/ \E c \in Callers : PostSend(c)
    \/ \E c \in Callers : PostRaise(c)
    \/ \E c \in Callers, status \in Statuses : PostReturn(c, status)
    \/ \E c \in Callers, op \in Ops : WaitSignalled(c, op)
    \/ \E c \in Callers : WaitTimeout(c)
    \/ \E c \in Callers : TimeoutLock(c)
    \/ \E c \in Callers : TimeoutRaise(c)

SpecDiscovery == Init /\ [][NextDiscovery]_vars

\* a client that is closed while its stream goes on: the listener line by line,
\* with an endpoint announced in a JSON object and responses to the calls made
CloseLines(sentIds) ==
    {[kind |-> "blank"]}
      \cup {[kind |-> "data", tok |-> ObjToken(MkObj(NoKey, NoKey, NoKey, PlainText))]}
      \cup {[kind |-> "data", tok |-> ObjToken(MkObj(StrId(n), [tools |-> <<>>], NoKey, NoKey))] :
               n \in sentIds}

NextClose ==
    \/ ConnectCreate
    \/ ConnectStart
    \/ HandshakeElapse
    \/ ConnectPollExit
    \/ ConnectCheck
    \/ CloseSet
    \/ CloseJoin
    \/ \E l \in Listeners : ListenerOpen(l)
    \/ \E l \in Listeners : ListenerStreamOver(l)
    \/ \E l \in Listeners : \E line \in CloseLines(sent) : ReadLine(l, line)
    \/ \E l \in Listeners : SetUrl(l)
    \/ \E l \in Listeners : Pop(l)
    \/ \E l \in Listeners : HandlerReturn(l)
    \/ \E l \in Listeners : StoreResponse(l)
    \/ \E l \in Listeners : Signal(l)
    \/ \E c \in Callers : CallStart(c)
    \/ \E c \in Callers : Register(c)
    \/ \E c \in Callers : PostSend(c)
    \/ \E c \in Callers : PostRaise(c)
    \/ \E c \in Callers, status \in Statuses : PostReturn(c, status)
    \/ \E c \in Callers, op \in Ops : WaitSignalled(c, op)
    \/ \E c \in Callers : WaitTimeout(c)
    \/ \E c \in Callers : TimeoutLock(c)
    \/ \E c \in Callers : TimeoutRaise(c)

SpecClose == Init /\ [][NextClose]_vars

\* the same client when the stream does deliver a line, end or fail, and every
\* thread that can run does run
FairnessClose ==
    /\ WF_vars(ConnectStart)
    /\ WF_vars(CloseJoin)
    /\ \A l \in Listeners : WF_vars(ListenerOpen(l) \/ ListenerStreamOver(l))
    /\ \A l \in Listeners :
          WF_vars((\E line \in CloseLines(sent) : ReadLine(l, line)) \/ ListenerStreamOver(l))
    /\ \A l \in Listeners : WF_vars(SetUrl(l))
    /\ \A l \in Listeners : WF_vars(Pop(l))
    /\ \A l \in Listeners : WF_vars(HandlerReturn(l))
    /\ \A l \in Listeners : WF_vars(StoreResponse(l))
    /\ \A l \in Listeners : WF_vars(Signal(l))

SpecCloseFair == SpecClose /\ FairnessClose

\* the listener line by line, with connect() and close() and no calls
NextLines ==
    \/ ConnectCreate
    \/ ConnectStart
    \/ HandshakeElapse
    \/ ConnectPollExit
    \/ ConnectCheck
    \/ CloseSet
    \/ CloseJoin
    \/ \E l \in Listeners : ListenerOpen(l)
    \/ \E l \in Listeners : ListenerStreamOver(l)
    \/ \E l \in Listeners : \E line \in Lines : ReadLine(l, line)
    \/ \E l \in Listeners : SetUrl(l)
    \/ \E l \in Listeners : Pop(l)
    \/ \E l \in Listeners : HandlerReturn(l)

SpecLines == Init /\ [][NextLines]_vars

\* ---------------------------------------------------------------- MCPClientwithOpenAI
\* aclose(): the contexts entered on the stack are exited
Closed(k) == [stacks EXCEPT ![k] = [@ EXCEPT !.stdio = FALSE, !.sess = FALSE,
                                               !.closed = TRUE]]

\* a coroutine calls connect(); it runs up to line 66 when it is scheduled
ConnectCall(t) ==
    /\ task[t].pc = "idle"
    /\ task' = [task EXCEPT ![t] = [IdleTask EXCEPT !.pc = "lockwait"]]
    /\ UNCHANGED <<connected, session, exit_stack, conn_lock, stacks>>
    /\ UNCHANGED <<extVars, function_key, write_url, pending, holder, stop, listener_thread, lst,
                   owner, call, nextId, sent, regCount, resolved, timedout, closeRaised,
                   lock>>

AlreadyConnectedNever(c) == FALSE
\* line 67: if self._connected
AlreadyConnected(c) == c

\* lines 66-79: the lock is taken; a connected instance returns, which releases
\* it; otherwise a new exit stack is made and the coroutine is suspended in
\* entering stdio_client on it
ConnectEnter(t) ==
    /\ task[t].pc = "lockwait"
    /\ conn_lock = ""
    /\ IF AlreadyConnected(connected)
       THEN /\ task' = [task EXCEPT ![t] = [IdleTask EXCEPT !.res = "already"]]
            /\ UNCHANGED <<exit_stack, conn_lock, stacks>>
       ELSE \E k \in Stacks :
              /\ ~stacks[k].made
              /\ \A j \in 1..(k - 1) : stacks[j].made
              /\ stacks' = [stacks EXCEPT ![k].made = TRUE]
              /\ exit_stack' = k
              /\ conn_lock' = t
              /\ task' = [task EXCEPT ![t] = [IdleTask EXCEPT !.pc = "stdio", !.st = k]]
    /\ UNCHANGED <<connected, session>>
    /\ UNCHANGED <<extVars, function_key, write_url, pending, holder, stop, listener_thread, lst,
                   owner, call, nextId, sent, regCount, resolved, timedout, closeRaised,
                   lock>>

\* lines 95-98: the except clause. disconnect() is awaited: with an exit stack
\* set the coroutine is suspended in its aclose(); with none it returns at once,
\* the exception is raised again and the lock is released
Except(t) ==
    /\ IF exit_stack # 0
       THEN /\ task' = [task EXCEPT ![t].pc = "failclose", ![t].st = exit_stack]
            /\ UNCHANGED conn_lock
       ELSE /\ task' = [task EXCEPT ![t] = [IdleTask EXCEPT !.res = "error"]]
            /\ conn_lock' = ""
    /\ UNCHANGED <<connected, session, exit_stack>>

\* lines 78-84: entering stdio_client ends. On success the transport is held by
\* the stack it was entered on, and self.exit_stack is read again for the
\* session: None there raises AttributeError
StdioDone(t, ok) ==
    /\ task[t].pc = "stdio"
    /\ IF ok
       THEN /\ stacks' = [stacks EXCEPT ![task[t].st].stdio = TRUE]
            /\ IF exit_stack # 0
               THEN /\ task' = [task EXCEPT ![t].pc = "sess", ![t].st = exit_stack]
                    /\ UNCHANGED <<connected, session, exit_stack, conn_lock>>
               ELSE Except(t)
       ELSE /\ UNCHANGED stacks
            /\ Except(t)
    /\ UNCHANGED <<extVars, function_key, write_url, pending, holder, stop, listener_thread, lst,
                   owner, call, nextId, sent, regCount, resolved, timedout, closeRaised,
                   lock>>

\* lines 83-87: entering ClientSession ends. On success the session is held by
\* the stack it was entered on and assigned to self.session, and the coroutine is
\* suspended in session.initialize()
SessDone(t, ok) ==
    /\ task[t].pc = "sess"
    /\ IF ok
       THEN /\ stacks' = [stacks EXCEPT ![task[t].st].sess = TRUE]
            /\ session' = task[t].st
            /\ task' = [task EXCEPT ![t].pc = "init"]
            /\ UNCHANGED <<connected, exit_stack, conn_lock>>
       ELSE /\ UNCHANGED stacks
            /\ Except(t)
    /\ UNCHANGED <<extVars, function_key, write_url, pending, holder, stop, listener_thread, lst,
                   owner, call, nextId, sent, regCount, resolved, timedout, closeRaised,
                   lock>>

\* lines 87-89: initialize() ends. On success self._connected = True, connect()
\* returns and the lock is released
InitDone(t, ok) ==
    /\ task[t].pc = "init"
    /\ IF ok
       THEN /\ connected' = TRUE
            /\ conn_lock' = ""
            /\ task' = [task EXCEPT ![t] = [IdleTask EXCEPT !.res = "connected"]]
            /\ UNCHANGED <<session, exit_stack>>
       ELSE Except(t)
    /\ UNCHANGED stacks
    /\ UNCHANGED <<extVars, function_key, write_url, pending, holder, stop, listener_thread, lst,
                   owner, call, nextId, sent, regCount, resolved, timedout, closeRaised,
                   lock>>

\* lines 103-107 inside the except clause, then line 98: aclose() has ended,
\* the fields are cleared, the exception is raised again, the lock is released
FailClosed(t) ==
    /\ task[t].pc = "failclose"
    /\ stacks' = Closed(task[t].st)
    /\ exit_stack' = 0
    /\ session' = 0
    /\ conn_lock' = ""
    /\ task' = [task EXCEPT ![t] = [IdleTask EXCEPT !.res = "error"]]
    /\ UNCHANGED connected
    /\ UNCHANGED <<extVars, function_key, write_url, pending, holder, stop, listener_thread, lst,
                   owner, call, nextId, sent, regCount, resolved, timedout, closeRaised,
                   lock>>

\* lines 100-103: a coroutine calls disconnect(): with no exit stack it returns,
\* otherwise it is suspended in aclose() of the stack it found
DisconnectCall(t) ==
    /\ task[t].pc = "idle"
    /\ IF exit_stack # 0
       THEN task' = [task EXCEPT ![t] = [IdleTask EXCEPT !.pc = "aclose", !.st = exit_stack]]
       ELSE task' = [task EXCEPT ![t] = [IdleTask EXCEPT !.res = "nothing"]]
    /\ UNCHANGED <<connected, session, exit_stack, conn_lock, stacks>>
    /\ UNCHANGED <<extVars, function_key, write_url, pending, holder, stop, listener_thread, lst,
                   owner, call, nextId, sent, regCount, resolved, timedout, closeRaised,
                   lock>>

\* lines 103-108: aclose() has ended and the fields are cleared
AcloseDone(t) ==
    /\ task[t].pc = "aclose"
    /\ stacks' = Closed(task[t].st)
    /\ exit_stack' = 0
    /\ session' = 0
    /\ task' = [task EXCEPT ![t] = [IdleTask EXCEPT !.res = "disconnected"]]
    /\ UNCHANGED <<connected, conn_lock>>
    /\ UNCHANGED <<extVars, function_key, write_url, pending, holder, stop, listener_thread, lst,
                   owner, call, nextId, sent, regCount, resolved, timedout, closeRaised,
                   lock>>

NextOpenAI ==
    \/ \E t \in Tasks : ConnectCall(t)
    \/ \E t \in Tasks : ConnectEnter(t)
    \/ \E t \in Tasks, ok \in BOOLEAN : StdioDone(t, ok)
    \/ \E t \in Tasks, ok \in BOOLEAN : SessDone(t, ok)
    \/ \E t \in Tasks, ok \in BOOLEAN : InitDone(t, ok)
    \/ \E t \in Tasks : FailClosed(t)
    \/ \E t \in Tasks : DisconnectCall(t)
    \/ \E t \in Tasks : AcloseDone(t)

SpecOpenAI == Init /\ [][NextOpenAI]_vars

\* ---------------------------------------------------------------- the run polling loop
\* foundry_with_mcp.py line 72: run = agents_client.runs.create(...)
RunCreate(r) ==
    /\ loop.pc = "create"
    /\ r.action = "none"
    /\ run' = r
    /\ loop' = [loop EXCEPT !.pc = "while"]
    /\ UNCHANGED <<mcpVars, oaVars, http>>

\* line 76: the while condition
WhileTest ==
    /\ loop.pc = "while"
    /\ loop' = [loop EXCEPT !.pc = IF run.status \in Polling THEN "fetch" ELSE "done"]
    /\ UNCHANGED <<run, mcpVars, oaVars, http>>

\* lines 77-78: sleep, then run = agents_client.runs.get(...)
Fetch(r) ==
    /\ loop.pc = "fetch"
    /\ loop.npolls < MaxPolls
    /\ run' = r
    /\ loop' = [loop EXCEPT !.pc = "handle", !.npolls = @ + 1, !.submitted = <<>>]
    /\ UNCHANGED <<mcpVars, oaVars, http>>

\* line 80: status requires_action with a SubmitToolApprovalAction
RequiresApproval(r) == r.status = "requires_action" /\ r.action = "approval"

\* lines 87-98: one ToolApproval for each tool call that is a RequiredMcpToolCall
Approvals(calls) ==
    LET F[i \in 0..Len(calls)] ==
          IF i = 0 THEN <<>>
          ELSE IF calls[i].kind = "mcp" THEN Append(F[i - 1], calls[i].id)
          ELSE F[i - 1]
    IN F[Len(calls)]

\* lines 80-108: the rest of the loop body
Handle ==
    /\ loop.pc = "handle"
    /\ IF RequiresApproval(run)
       THEN IF run.tool_calls = <<>>
            THEN loop' = [loop EXCEPT !.pc = "done", !.cancelled = TRUE]
            ELSE loop' = [loop EXCEPT !.pc = "while",
                                      !.submitted = Approvals(run.tool_calls)]
       ELSE loop' = [loop EXCEPT !.pc = "while"]
    /\ UNCHANGED <<run, mcpVars, oaVars, http>>

NextPoll ==
    \/ \E r \in Runs : RunCreate(r)
    \/ WhileTest
    \/ \E r \in Runs : Fetch(r)
    \/ Handle

SpecPoll == Init /\ [][NextPoll]_vars

\* ---------------------------------------------------------------- the HTTP search endpoints
\* function_app.py lines 142 / 170: the host invokes an endpoint with a request.
\* shape is what req.get_json() finds: no JSON at all, JSON that is not an
\* object, or an object; arg is the "query" / "doc_id" member of the body:
\* absent, "", null, the number 0, another number or a non-empty string; emb is
\* the embeddings input of http_search, well-formed or not
HttpRequest(ep, shape, arg, emb) ==
    /\ http.pc \in {"idle", "done"}
    /\ shape = "dict" \/ arg = "missing"
    /\ emb = "ok" \/ ep = "http_search"
    /\ http' = [IdleHttp EXCEPT !.pc = "get_json", !.ep = ep, !.shape = shape,
                                !.arg = arg, !.emb = emb]
    /\ UNCHANGED <<run, loop, mcpVars, oaVars>>

\* lines 144-149 / 172-177: req_body.get("query", "") gives "" for an absent
\* member; req.get_json() raises ValueError on a body that is
\* not JSON, .get raises AttributeError on JSON that is not an object; the
\* exception leaves the endpoint and the invocation fails (status 500)
GetJson ==
    /\ http.pc = "get_json"
    /\ IF http.shape = "dict"
       THEN http' = [http EXCEPT !.pc = "validate", !.param = IF http.arg = "missing" THEN "empty"
                                                          ELSE http.arg]
       ELSE http' = [http EXCEPT !.pc = "done", !.status = 500]
    /\ UNCHANGED <<run, loop, mcpVars, oaVars>>

\* "not query" / "not doc_id"
Falsy(v) == v \in {"empty", "null", "zero"}

\* the HttpResponse object of lines 48 / 97
Missing400 == [type |-> "HttpResponse", json |-> "none", n |-> 0, status |-> 400]

\* lines 44-48 / 93-97 of search_tool / search_tool_by_doc_id
Validate ==
    /\ http.pc = "validate"
    /\ IF Falsy(http.param)
       THEN http' = [http EXCEPT !.pc = "respond", !.ret = Missing400]
       ELSE http' = [http EXCEPT !.pc = "backend"]
    /\ UNCHANGED <<run, loop, mcpVars, oaVars>>

\* json.dumps({"error": str(e)}) of lines 76 / 122
ErrorJson == [type |-> "str", json |-> "error", n |-> 0, status |-> 0]

\* json.dumps(results_dict) of lines 72 / 118
DocumentsJson(n) == [type |-> "str", json |-> "documents", n |-> n, status |-> 0]

\* lines 51-54 / 100-103: load_search_config, AzureAISearch(...), initialize()
BackendInit(ok) ==
    /\ http.pc = "backend"
    /\ IF ok
       THEN http' = [http EXCEPT !.pc = "search", !.backend = TRUE]
       ELSE http' = [http EXCEPT !.pc = "respond", !.backend = TRUE, !.ret = ErrorJson]
    /\ UNCHANGED <<run, loop, mcpVars, oaVars>>

\* lines 56-76 / 105-122: the search itself; res = -1 stands for an exception,
\* which is all a malformed embeddings input can give (lines 56-57);
\* search_documents(query, vector, 10) gives any number of documents up to the
\* bound, get_document_by_id none or one
BackendSearch(res) ==
    /\ http.pc = "search"
    /\ res = -1 \/ (/\ res \in (IF http.ep = "http_search" THEN 0..MaxDocs ELSE 0..1)
                    /\ http.emb = "ok")
    /\ http' = [http EXCEPT !.pc = "respond", !.results = res,
                            !.ret = IF res = -1 THEN ErrorJson ELSE DocumentsJson(res)]
    /\ UNCHANGED <<run, loop, mcpVars, oaVars>>

\* lines 151 / 179: func.HttpResponse(response_json, mimetype="application/json");
\* no status_code is passed, so a response that is built has the default 200.
\* Given a body that is not text (the HttpResponse object of lines 48 / 97) the
\* constructor of the azure.functions library either rejects it (raises: the
\* invocation fails, status 500) or takes it (status 200)
Respond(raises) ==
    /\ http.pc = "respond"
    /\ IF http.ret.type = "str"
       THEN /\ ~raises
            /\ http' = [http EXCEPT !.pc = "done", !.status = 200,
                                    !.body = [json |-> http.ret.json, n |-> http.ret.n]]
       ELSE IF raises
            THEN http' = [http EXCEPT !.pc = "done", !.status = 500]
            ELSE http' = [http EXCEPT !.pc = "done", !.status = 200,
                                      !.body = [json |-> "object", n |-> 0]]
    /\ UNCHANGED <<run, loop, mcpVars, oaVars>>

NextHttp ==
    \/ \E ep \in {"http_search", "http_search_by_doc_id"},
          shape \in {"notjson", "list", "dict"},
          arg \in {"missing", "empty", "null", "zero", "number", "text"},
          emb \in {"ok", "bad"} :
          HttpRequest(ep, shape, arg, emb)
    \/ GetJson
    \/ Validate
    \/ \E ok \in BOOLEAN : BackendInit(ok)
    \/ \E res \in -1..MaxDocs : BackendSearch(res)
    \/ \E raises \in BOOLEAN : Respond(raises)

SpecHttp == Init /\ [][NextHttp]_vars

\* ---------------------------------------------------------------- properties
Range(f) == {f[i] : i \in DOMAIN f}
Done(c) == call[c].pc = "done"
\* the listener l is at line 70 with an object whose id is a key of the table pend
Matches(l, pend) ==
    /\ lst[l].lpc = "pop"
    /\ lst[l].obj["id"].t = "str"
    /\ lst[l].obj["id"].v \in pend
\* the listener l executes line 70 in this step
Pops(l) == lst[l].lpc = "pop" /\ lst'[l] # lst[l]

\* C1: every rid a call registered is in the pending table exactly from its
\* registration until the listener pops it or its caller times out, and is absent
\* afterwards; no rid is put into the table twice, and nothing else is in the table.
C1_PendingLifecycle ==
    /\ \A n \in Ids : regCount[n] <= 1
    /\ \A n \in Ids : n \in pending <=>
                        (regCount[n] = 1 /\ n \notin Range(resolved) /\ n \notin timedout)
    /\ \A c, d \in Callers : c # d /\ call[c].rid # 0 => call[c].rid # call[d].rid

C1_Witness ==
    /\ pending = {}
    /\ Range(resolved) # {}
    /\ timedout # {}
    /\ Range(resolved) \cap timedout = {}

\* C2: a call that ends with a response (returned or raised as a remote error)
\* ends with the response that carries its own rid, whatever the order in which the
\* listener resolved the calls in flight.
C2_NoCrossTalk ==
    \A c \in Callers :
        Done(c) /\ call[c].outcome \in {"return", "RemoteError"} =>
            /\ call[c].result["id"] = StrId(call[c].rid)
            /\ call[c].result = holder[call[c].rid].response

\* both calls are inside _rpc, and the one issued second was resolved first
C2_Witness ==
    /\ \A c \in Callers : call[c].pc = "wait" /\ holder[call[c].rid].set
    /\ resolved = <<2, 1>>
    /\ holder[1].response # holder[2].response

\* C3: an event on the JSON-RPC branch whose id matches no entry of the table
\* leaves the table, every holder and the write endpoint as they are; and once a
\* response has been handled, the same response matches no entry any more, so a
\* second delivery is such an event.
C3_IdempotentDrop ==
    [][\A l \in Listeners :
         Pops(l) /\ Hashable(lst[l].obj["id"]) =>
            /\ ~Matches(l, pending) =>
                  /\ UNCHANGED <<pending, holder, write_url, resolved>>
                  /\ lst'[l].lpc = "miss"
            /\ lst[l].obj["id"].t = "str" => lst[l].obj["id"].v \notin pending'
            /\ write_url' = write_url
            /\ pending' \subseteq pending
            /\ lst'[l].lpc = "store" => lst'[l].wid \notin pending']_vars

\* the handler has just dropped a second response for a rid it resolved before,
\* while another call is in the table
C3_Witness ==
    \E l \in Listeners :
        /\ lst[l].lpc = "miss"
        /\ lst[l].wid \in Range(resolved)
        /\ holder[lst[l].wid].set
        /\ pending # {}

\* C4: a call whose wait elapses fails with RpcTimeout and its rid is out of the
\* table; a response for that rid read afterwards changes neither the table, nor a
\* holder, nor any caller.
C4_TimeoutThenDrop ==
    [][/\ \A c \in Callers :
            call[c].pc = "tmo" /\ call'[c] # call[c] =>
                /\ call'[c].pc = "done" /\ call'[c].outcome = "RpcTimeout"
                /\ call'[c].resp = NoKey /\ call'[c].ret = NoKey
                /\ call[c].rid \notin pending'
       /\ \A c \in Callers :
            Done(c) /\ call[c].outcome = "RpcTimeout" /\ call'[c].pc = "done" =>
                call'[c] = call[c]
       /\ \A n \in timedout : n \notin pending'
       /\ \A l \in Listeners :
            (/\ Pops(l)
             /\ lst[l].obj["id"].t = "str"
             /\ lst[l].obj["id"].v \in timedout) =>
                /\ UNCHANGED <<pending, holder, call, resolved>>
                /\ lst'[l].lpc = "miss"]_vars

\* the handler has just dropped the response for a call that had timed out; the
\* caller keeps its RpcTimeout and the other call is still in the table
C4_Witness ==
    \E l \in Listeners : \E c, d \in Callers :
        /\ lst[l].lpc = "miss"
        /\ lst[l].wid \in timedout
        /\ Done(c) /\ call[c].outcome = "RpcTimeout" /\ call[c].rid = lst[l].wid
        /\ holder[call[c].rid] = NoHolder
        /\ call[d].pc = "wait" /\ call[d].rid \in pending

C6_ListToolsRoundTrip ==
    \A c \in Callers :
        (/\ Done(c) /\ call[c].outcome = "return" /\ call[c].op = "list_tools"
         /\ "result" \in DOMAIN holder[call[c].rid].response
         /\ "tools" \in DOMAIN holder[call[c].rid].response["result"]) =>
            call[c].ret = holder[call[c].rid].response["result"]["tools"]

C6_Witness ==
    \E c \in Callers :
        /\ Done(c) /\ call[c].outcome = "return" /\ call[c].op = "list_tools"
        /\ call[c].ret = <<"search">>

\* C7: a call that reads a response with an error field fails with RemoteError
\* carrying that error payload and returns nothing; a call that returns read a
\* response without one.
C7_ErrorPropagation ==
    \A c \in Callers :
        Done(c) /\ call[c].outcome \in {"return", "RemoteError"} =>
            LET response == holder[call[c].rid].response
            IN /\ call[c].outcome = "RemoteError" <=> "error" \in DOMAIN response
               /\ call[c].outcome = "RemoteError" =>
                    /\ call[c].exc = response["error"]
                    /\ call[c].resp = NoKey
                    /\ call[c].ret = NoKey

C7_Witness ==
    \E c \in Callers :
        /\ Done(c) /\ call[c].outcome = "RemoteError"
        /\ call[c].exc = [code |-> -32601, message |-> "not found"]

\* C8: a call whose POST came back with a status of 400 or more has ended with
\* TransportError and has never waited on its completion signal; no other call
\* ends with TransportError.
C8_TransportError ==
    \A c \in Callers :
        /\ call[c].httpError => Done(c) /\ call[c].outcome = "TransportError" /\ ~call[c].waited
        /\ Done(c) /\ call[c].outcome = "TransportError" => call[c].httpError

\* the POST failed although the response had already been stored and signalled
C8_Witness ==
    \E c \in Callers :
        /\ Done(c) /\ call[c].outcome = "TransportError"
        /\ holder[call[c].rid].set

\* C9: connect leaves its polling loop only when the write endpoint is known or
\* the window has elapsed; it returns normally only with a write endpoint, and it
\* raises HandshakeTimeout exactly when the write endpoint is None at its final
\* test, which is after the window elapsed; once connect has returned normally no
\* call is rejected as unconnected.
C9_Handshake ==
    [][/\ owner.pc = "poll" /\ owner'.pc # "poll" => write_url # None \/ owner.elapsed
       /\ owner.pc = "c51" /\ owner'.pc # "c51" =>
            /\ owner'.res = "HandshakeTimeout" <=> write_url = None
            /\ owner'.res = "ok" <=> write_url # None
            /\ owner'.res = "HandshakeTimeout" => owner.elapsed
       /\ owner'.res = "ok" => write_url' # None
       /\ \A c \in Callers :
            call'[c] # call[c] /\ call'[c].outcome = "NotConnected" => owner.res # "ok"]_vars

\* connect returned normally and the call made next is waiting for its response
C9_Witness ==
    /\ owner.res = "ok"
    /\ owner.pc = "idle"
    /\ call["main"].pc = "wait"

\* C10: close sets the stop signal and changes nothing else of the client; a
\* close on a client whose stop signal is set changes nothing; close never raises,
\* also before connect.
C10_CloseIdempotent ==
    [][/\ owner.pc = "idle" /\ owner'.pc = "c142" =>
            /\ stop'
            /\ UNCHANGED <<oaVars, extVars, function_key, write_url, pending, holder, listener_thread>>
            /\ stop => UNCHANGED clientVars
       /\ owner.pc = "c142" /\ owner'.pc # "c142" =>
            /\ UNCHANGED clientVars
            /\ ~closeRaised'
            /\ owner'.pc = "idle"]_vars

\* a second close before any connect
C10_Witness ==
    /\ owner.nconnects = 0
    /\ owner.pc = "c142"
    /\ owner.again
    /\ stop

\* no listener thread is running or about to run
NoListenerAlive == \A l \in Listeners : lst[l].st \in {"none", "dead"}
\* the outcomes a call can end with
Outcomes == {"NotConnected", "RequestException", "TransportError", "RemoteError",
             "return", "RpcTimeout"}

\* C11: neither step of close changes the pending table, a holder or a caller; a
\* call that waits, unresolved, while no listener runs can only go on to its
\* timeout, and the timeout ends it with RpcTimeout also when the stop signal is
\* set; no call ends with any other error than those of an open client.
C11_CloseWithCallsOutstanding ==
    [][/\ owner'.pc # owner.pc /\ "c142" \in {owner.pc, owner'.pc} =>
            UNCHANGED <<pending, holder, call>>
       /\ \A c \in Callers :
            (/\ NoListenerAlive
             /\ call[c].pc = "wait" /\ call[c].rid \in pending
             /\ call'[c] # call[c]) => call'[c].pc = "expired"
       /\ \A c \in Callers :
            call[c].pc = "tmo" /\ call'[c] # call[c] =>
                call'[c].pc = "done" /\ call'[c].outcome = "RpcTimeout"
       /\ \A c \in Callers : call'[c].pc = "done" => call'[c].outcome \in Outcomes]_vars

\* close is between its two statements, the listener has stopped on the signal
\* and the call that was waiting has timed out
C11_Witness ==
    /\ owner.pc = "c142" /\ stop
    /\ listener_thread # 0 /\ lst[listener_thread].st = "dead"
    /\ call["worker"].pc = "done" /\ call["worker"].outcome = "RpcTimeout"
    /\ call["worker"].rid \in sent
    /\ call["worker"].rid \notin Range(resolved)

\* C12: the step that ends a listener changes no caller and not the thread in
\* connect; a call that waits with its rid in the table while no listener runs
\* fails with RpcTimeout, and a connect that polls without a write endpoint while
\* no listener runs fails with HandshakeTimeout (unless a later connect starts a
\* listener first).
C12_StreamFailure ==
    /\ [][(\E l \in Listeners : lst[l].st # "dead" /\ lst'[l].st = "dead") =>
             UNCHANGED <<call, owner, holder, pending, write_url>>]_vars
    /\ \A c \in Callers :
          (NoListenerAlive /\ call[c].pc = "wait" /\ call[c].rid \in pending)
             ~> (\/ Done(c) /\ call[c].outcome = "RpcTimeout"
                 \/ ~NoListenerAlive)
    /\ (NoListenerAlive /\ owner.pc = "poll" /\ write_url = None)
          ~> (owner.pc = "idle" /\ owner.res = "HandshakeTimeout")

\* the stream ended without the stop signal; the call that was waiting has timed out
C12_Witness ==
    /\ ~stop
    /\ listener_thread # 0 /\ lst[listener_thread].st = "dead"
    /\ \E c \in Callers :
          /\ Done(c) /\ call[c].outcome = "RpcTimeout"
          /\ call[c].rid \in sent /\ call[c].rid \notin Range(resolved)

\* C13 as stated: an event that is no JSON or no JSON object, an object without
\* an id, or an object whose id (of any JSON type) matches no entry of the table
\* leaves the listener running and the table and the write endpoint unchanged.
C13_MalformedNonFatal ==
    [][\A l \in Listeners :
         /\ \A ev \in AllEvents :
               (/\ ~stop
                /\ HandleKind(ev[1], ev[2], write_url) \in {"not_json", "ignored"}
                /\ ReadEvent(l, ev[1], ev[2])) =>
                   /\ lst'[l].st = "running" /\ lst'[l].lpc = "read"
                   /\ UNCHANGED <<pending, write_url>>
         /\ Pops(l) /\ ~Matches(l, pending) =>
               /\ lst'[l].st = "running"
               /\ UNCHANGED <<pending, write_url>>]_vars

\* C14 as stated: once the write endpoint is set, no step changes it.
C14_FirstWins == [][write_url # None => write_url' = write_url]_vars

\* C15: the pending table changes only in a step of the thread that holds the
\* lock, which releases it in that step; the lock is held only by a caller at
\* its insert or at its timeout pop and by a listener at its pop, so never by a
\* thread that is sending its POST, waiting on its completion signal or reading
\* the stream.
C15_LockDiscipline ==
    /\ [](/\ \A c \in Callers : lock = ByCaller(c) <=> call[c].pc \in {"reg", "tmo"}
          /\ \A l \in Listeners :
                lock = ByListener(l) <=> (lst[l].st = "running" /\ lst[l].lpc = "pop")
          /\ \A c \in Callers :
                call[c].pc \in {"post", "posting", "wait"} => lock # ByCaller(c)
          /\ \A l \in Listeners : lst[l].lpc = "read" => lock # ByListener(l))
    /\ [][pending' # pending =>
             /\ lock # Free /\ lock' = Free
             /\ lock.kind = "caller" => call'[lock.c].pc # call[lock.c].pc
             /\ lock.kind = "listener" => lst'[lock.l].lpc # "pop"]_vars

\* one caller is blocked on its completion signal while the other caller is
\* inside the lock
C15_Witness ==
    \E c, d \in Callers :
        /\ call[c].pc = "wait" /\ ~holder[call[c].rid].set
        /\ call[d].pc = "reg" /\ lock = ByCaller(d)

\* the endpoint string carries a credential parameter: a query parameter named code
CarriesCredential(t) == \E j \in 1..Len(t.params) : t.params[j] = "code"

\* C16 as stated: the write URL is the raw endpoint resolved against the base of
\* the stream URL; code=<key> is appended exactly when a key is configured and the
\* raw endpoint carries no credential parameter, after "?" or, when the endpoint
\* has a query already, after "&"; the credential is never there twice.
C16_QualifyAsStated ==
    write_url # None =>
        LET t == write_url.ep[1]
            appended == write_url.sep # ""
        IN /\ write_url.at.origin = (IF t.form = "url" THEN "https://other" ELSE Base.origin)
           /\ write_url.at.dir = (IF t.form = "rel" THEN Base.dir ELSE "")
           /\ appended <=> (function_key # "" /\ ~CarriesCredential(t))
           /\ appended => /\ write_url.code = function_key
                           /\ write_url.sep = (IF t.params = <<>> THEN "?" ELSE "&")
           /\ ~(appended /\ CarriesCredential(t))

\* the positions of the blocks of a content list whose type is "json"
JsonAt(content) ==
    {i \in 1..Len(content) : "type" \in DOMAIN content[i] /\ content[i]["type"] = "json"}

\* C17: search and search_by_doc_id return the data of the first block of the
\* result's content list whose type is "json" (None when that block has no
\* data), and the whole content list when there is no such block; the content
\* list is empty when the response has no result or the result no content.
C17_SearchFirstJson ==
    call["main"].pc = "done" /\ call["main"].op \in {"search", "search_by_doc_id"} =>
        LET response == holder[1].response
            content == IF "result" \in DOMAIN response
                          /\ "content" \in DOMAIN response["result"]
                       THEN response["result"]["content"] ELSE <<>>
            first == CHOOSE i \in JsonAt(content) : \A j \in JsonAt(content) : i <= j
        IN /\ call["main"].outcome = "return"
           /\ JsonAt(content) = {} => call["main"].ret = content
           /\ JsonAt(content) # {} =>
                 call["main"].ret = (IF "data" \in DOMAIN content[first]
                                     THEN content[first]["data"] ELSE None)

\* search has returned the data of the second block, the first of two json blocks
C17_Witness ==
    /\ call["main"].pc = "done" /\ call["main"].op = "search"
    /\ "result" \in DOMAIN holder[1].response
    /\ holder[1].response["result"] =
          [content |-> <<[type |-> "text", text |-> "t"],
                         [type |-> "json", data |-> [docs |-> 2]],
                         [type |-> "json", data |-> [docs |-> 1]]>>]
    /\ call["main"].ret = [docs |-> 2]

\* of the lines read since the previous blank line: the contents of the data
\* lines, in order, and the value of the last event line
DataOf(seen) ==
    LET d == SelectSeq(seen, LAMBDA x : x.kind = "data")
    IN [i \in 1..Len(d) |-> d[i].tok]
NameOf(seen) ==
    LET e == SelectSeq(seen, LAMBDA x : x.kind = "event")
    IN IF e = <<>> THEN "none" ELSE e[Len(e)].name

\* C18: the buffer and the event name of a listener are the data lines and the
\* last event line read since the previous blank line; a blank line hands that
\* name and those data lines to the handler when there is a data line, calls no
\* handler when there is none, and leaves name and buffer reset in both cases.
C18_EventFraming ==
    /\ [](\A l \in Listeners :
             /\ lst[l].buf = DataOf(lst[l].seen)
             /\ lst[l].event = NameOf(lst[l].seen))
    /\ [][\A l \in Listeners :
             ~stop /\ ReadLine(l, [kind |-> "blank"]) =>
                /\ DataOf(lst[l].seen) = <<>> =>
                      /\ UNCHANGED <<write_url, pending, holder, lock>>
                      /\ lst'[l].lpc = "read"
                /\ DataOf(lst[l].seen) # <<>> =>
                      Dispatch(l, NameOf(lst[l].seen), DataOf(lst[l].seen))
                /\ lst'[l].event = "none" /\ lst'[l].buf = <<>>
                /\ lst'[l].seen = <<>>]_vars

\* a blank line has handed the data lines of an event named endpoint to the
\* handler as one payload, and name and buffer are reset
C18_Witness ==
    \E l \in Listeners :
        /\ lst[l].lpc = "seturl"
        /\ Len(lst[l].ep) = MaxBuf
        /\ lst[l].event = "none" /\ lst[l].buf = <<>>

\* the payloads that parse as a JSON object with an endpoint key, under any name
EndpointObjectEvents == {"none", "endpoint"} \X {<<t>> : t \in EndpointPayloads}

\* C19 as stated: while no write endpoint is known, a payload that is a JSON
\* object with an endpoint key makes the handler set the write endpoint from that
\* key and never reaches the pop, with or without an id; once a write endpoint
\* is known the same payload leaves it unchanged and is at most a response.
C19_FallbackAsStated ==
    [][\A l \in Listeners : \A ev \in EndpointObjectEvents :
         ~stop /\ ReadEvent(l, ev[1], ev[2]) =>
            IF write_url = None
            THEN /\ lst'[l].lpc = "seturl"
                 /\ lst'[l].ep = <<Loads(ev[2])["endpoint"]>>
                 /\ UNCHANGED <<pending, holder, lock>>
            ELSE /\ write_url' = write_url
                 /\ lst'[l].lpc = (IF "id" \in DOMAIN Loads(ev[2]) THEN "pop" ELSE "read")]_vars

\* C19 as amended: the same for a payload in an event that is not named
\* endpoint; in an event named endpoint the write endpoint is set from the raw
\* payload. In both cases the value assigned is the qualified endpoint, which
\* is not None, so that connect leaves its polling loop.
C19_FallbackDiscovery ==
    /\ [][\A l \in Listeners : \A ev \in EndpointObjectEvents :
            ~stop /\ ReadEvent(l, ev[1], ev[2]) =>
               IF write_url = None
               THEN /\ lst'[l].lpc = "seturl"
                    /\ lst'[l].ep = (IF ev[1] = "endpoint" THEN ev[2]
                                      ELSE <<Loads(ev[2])["endpoint"]>>)
                    /\ UNCHANGED <<pending, holder, lock>>
               ELSE /\ write_url' = write_url
                    /\ lst'[l].lpc = (IF "id" \in DOMAIN Loads(ev[2]) THEN "pop"
                                       ELSE "read")]_vars
    /\ [][\A l \in Listeners :
            lst[l].lpc = "seturl" /\ lst'[l] # lst[l] =>
               /\ write_url' = Qualify(lst[l].ep, function_key)
               /\ write_url' # None
               /\ ~PollAgain(write_url', owner.elapsed)]_vars

\* after the discovery an object with an endpoint key and the rid of a call has
\* been stored and signalled as the response of that call
C19_Witness ==
    \E n \in Ids :
        /\ write_url # None
        /\ holder[n].set
        /\ "endpoint" \in DOMAIN holder[n].response

\* the rid n has left in a POST and its entry was neither popped by the listener
\* nor removed by the timeout of its call
Outstanding(n) == n \in sent /\ n \notin Range(resolved) /\ n \notin timedout

\* C20: a rid is put into the table, once, before its POST leaves, and stays
\* there until the listener or the timeout of its call removes it; so the pop of
\* a response that quotes an outstanding rid finds the entry and goes on to store
\* and signal, also while the caller is still inside the POST.
C20_RegisteredBeforePost ==
    /\ [](\A n \in sent : regCount[n] = 1)
    /\ [](\A n \in Ids : Outstanding(n) => n \in pending)
    /\ [][\A c \in Callers : call[c].pc = "post" /\ call'[c].pc = "posting" =>
              call[c].rid \in pending /\ call[c].rid \notin sent]_vars
    /\ [][\A l \in Listeners :
              /\ Pops(l)
              /\ lst[l].obj["id"].t = "str"
              /\ Outstanding(lst[l].obj["id"].v)
              => /\ lst'[l].st = "running"
                 /\ lst'[l].lpc = "store"
                 /\ lst'[l].wid = lst[l].obj["id"].v
                 /\ resolved' = Append(resolved, lst[l].obj["id"].v)]_vars
    /\ [][\A l \in Listeners :
              lst[l].lpc = "store" /\ lst'[l] # lst[l] =>
                 holder'[lst[l].wid].response = lst[l].obj]_vars

\* the response of a call has been stored and signalled while its caller is
\* still inside requests.post
C20_Witness ==
    \E c \in Callers :
        /\ call[c].pc = "posting"
        /\ call[c].rid \in Range(resolved)
        /\ holder[call[c].rid].set

\* C21: a holder whose event is set carries a response, the one that quotes its
\* rid; the step that sets the event finds the response already stored and does
\* not touch it; a stored response is never replaced; and the caller that wakes
\* on the event reads exactly that response.
C21_StoreBeforeSignal ==
    /\ [](\A n \in Ids : holder[n].set =>
              /\ holder[n].response # NoKey
              /\ holder[n].response["id"] = StrId(n))
    /\ [][\A n \in Ids :
              /\ (~holder[n].set /\ holder'[n].set) =>
                     /\ holder[n].response # NoKey
                     /\ holder'[n].response = holder[n].response
              /\ holder[n].response # NoKey => holder'[n].response = holder[n].response
              /\ holder[n].set => holder'[n].set]_vars
    /\ [][\A c \in Callers :
              call[c].pc = "wait" /\ call'[c].pc = "done" =>
                 /\ holder[call[c].rid].set
                 /\ call'[c].result = holder[call[c].rid].response
                 /\ call'[c].result # NoKey]_vars

\* a caller is about to wake on its event while the listener has just dropped a
\* second response that quoted the same rid
C21_Witness ==
    \E c \in Callers : \E l \in Listeners :
        /\ call[c].pc = "wait"
        /\ holder[call[c].rid].set
        /\ lst[l].lpc = "miss"
        /\ lst[l].wid = call[c].rid

\* C22: the rid of a call that has ended, with whatever outcome, is not in the
\* pending table; and the table is empty whenever no call is inside _rpc.
C22_NoEntryAfterCall ==
    /\ \A c \in Callers : Done(c) => call[c].rid \notin pending
    /\ (\A c \in Callers : call[c].pc \in {"idle", "done"}) => pending = {}

\* the step in which the call of c leaves _rpc through line 103
RaisesTimeout(c) == call[c].pc = "tmo" /\ call'[c].pc = "done"

\* C23: every entry that leaves the table is removed either by the pop of the
\* listener or by the pop of the timeout path of its call, never by both; and a
\* call whose holder carries a response and has its event set does not fail
\* with RpcTimeout.
C23_ExactlyOneRemover ==
    /\ [][\A n \in Ids :
              n \in pending /\ n \notin pending' =>
                 /\ pending' = pending \ {n}
                 /\ (resolved' = Append(resolved, n)) # (n \in timedout')
                 /\ n \notin Range(resolved) /\ n \notin timedout]_vars
    /\ [](\A n \in Ids : n \in Range(resolved) /\ n \in timedout => n \notin pending)
    /\ [][\A c \in Callers :
              RaisesTimeout(c) =>
                 ~(holder[call[c].rid].set /\ holder[call[c].rid].response # NoKey)]_vars

\* C24: a call made while write_url is None ends at once with "Not connected":
\* it takes no rid, no lock, registers nothing and posts nothing; so an entry in
\* the table, or a request that has left, implies a discovered write endpoint.
C24_NotConnected ==
    /\ [][\A c \in Callers :
              write_url = None /\ call'[c] # call[c] =>
                 /\ call'[c].pc = "done"
                 /\ call'[c].outcome = "NotConnected"
                 /\ call'[c].rid = 0
                 /\ UNCHANGED <<nextId, pending, sent, regCount, holder, lock>>]_vars
    /\ [](pending # {} \/ sent # {} \/ nextId > 1 => write_url # None)
    /\ [][write_url # None => write_url' # None]_vars

\* a call made before the endpoint was discovered has failed, and nothing was
\* registered or sent
C24_Witness ==
    /\ write_url = None
    /\ \E c \in Callers : Done(c) /\ call[c].outcome = "NotConnected"
    /\ pending = {} /\ sent = {} /\ nextId = 1

\* the thread of listener l is alive: it is opening its stream or reading it
Active(l) == lst[l].st \in {"started", "running"}

\* C25: whatever connect and close calls were made on the client, at most one
\* listener thread is alive and at most one stream is open.
C25_SingleListener ==
    \A l1, l2 \in Listeners : Active(l1) /\ Active(l2) => l1 = l2

\* C26: once the stop signal is set it stays set; the first line the listener
\* is given afterwards ends it, with whatever it had buffered, and it dispatches
\* nothing and never acts again; so a call made after close() has returned is
\* never resolved: its holder stays empty, it leaves the wait only by the
\* timeout, and having posted its request it ends with RpcTimeout unless the
\* POST itself failed.
C26_StopIsFinal ==
    /\ [][stop => stop']_vars
    /\ [][\A l \in Listeners :
              /\ (stop /\ lst[l].st = "running" /\ lst[l].lpc = "read" /\ lst'[l] # lst[l])
                    => /\ lst'[l] = [lst[l] EXCEPT !.st = "dead"]
                       /\ UNCHANGED <<write_url, pending, holder, lock>>
              /\ lst[l].st = "dead" => lst'[l] = lst[l]]_vars
    /\ [](\A c \in Callers :
              call[c].afterClose =>
                 /\ holder[call[c].rid] = NoHolder
                 /\ call[c].rid \notin Range(resolved)
                 /\ call[c].pc \in {"expired", "tmo"} => call[c].rid \in sent
                 /\ Done(c) => call[c].outcome \in
                                  {"RpcTimeout", "TransportError", "RequestException"}
                 /\ Done(c) /\ call[c].waited => call[c].outcome = "RpcTimeout")
    /\ [][\A c \in Callers :
              call[c].afterClose /\ call[c].pc = "post" /\ call'[c] # call[c] =>
                 \/ call'[c].pc = "posting" /\ call[c].rid \in sent'
                 \/ call'[c].outcome = "RequestException"]_vars

\* a call made after close() had returned has posted its request and ended with
\* RpcTimeout, and the listener ended on the stop signal with a data line in
\* its buffer
C26_Witness ==
    \E c \in Callers : \E l \in Listeners :
        /\ call[c].afterClose /\ Done(c)
        /\ call[c].outcome = "RpcTimeout"
        /\ call[c].rid \in sent
        /\ lst[l].st = "dead" /\ lst[l].buf # <<>>

\* C27: close() can always take its second step, whatever the listener is
\* doing, and so returns; neither step of close() touches the listener; a
\* listener ends on the stop signal only in the step in which it is given a
\* line; and a listener that is alive when the stop signal is set does end,
\* when the stream delivers a line, ends or fails.
C27_CloseTerminates ==
    /\ [](owner.pc = "c142" => ENABLED CloseJoin)
    /\ (owner.pc = "c142") ~> (owner.pc = "idle" /\ stop)
    /\ [][owner'.pc # owner.pc /\ "c142" \in {owner.pc, owner'.pc} =>
              UNCHANGED <<lst, listener_thread>>]_vars
    /\ [][\A l \in Listeners :
              lst[l].st = "running" /\ lst'[l].st = "dead" =>
                 lst[l].lpc = "read" /\ lst'[l] = [lst[l] EXCEPT !.st = "dead"]]_vars
    /\ \A l \in Listeners : (stop /\ Active(l)) ~> (lst[l].st = "dead")

\* close() has returned and the listener, which has not been given a line
\* since, is still alive
C27_Witness ==
    /\ ClosedOnce /\ owner.pc = "idle"
    /\ listener_thread # 0
    /\ lst[listener_thread].st = "running"

\* the coroutine t is inside connect() past the lock, suspended in one of its awaits
InConnect(t) == task[t].pc \in {"stdio", "sess", "init", "failclose"}

\* C28: the lock is held exactly by the one coroutine that is inside connect(),
\* every exit stack is made, and every transport and session entered, by that
\* coroutine; while the instance is connected nothing is made or entered; and a
\* connect() that finds the instance connected returns having changed nothing.
C28_SingleConnection ==
    /\ [](\A t, u \in Tasks : InConnect(t) /\ InConnect(u) => t = u)
    /\ [](\A t \in Tasks : conn_lock = t <=> InConnect(t))
    /\ [](connected => \A t \in Tasks : ~InConnect(t))
    /\ [][\A k \in Stacks :
              \/ (stacks'[k].made /\ ~stacks[k].made)
              \/ (stacks'[k].stdio /\ ~stacks[k].stdio)
              \/ (stacks'[k].sess /\ ~stacks[k].sess)
              => /\ ~connected
                 /\ \E t \in Tasks : t \in {conn_lock, conn_lock'} /\ task'[t] # task[t]]_vars
    /\ [][\A t \in Tasks :
              connected /\ task[t].pc = "lockwait" /\ task'[t] # task[t] =>
                 /\ task'[t] = [IdleTask EXCEPT !.res = "already"]
                 /\ UNCHANGED <<connected, session, exit_stack, conn_lock, stacks>>]_vars

\* two coroutines called connect(): one connected the instance, the other
\* returned at line 69, and one exit stack was made
C28_Witness ==
    /\ connected
    /\ \E t, u \in Tasks : task[t].res = "connected" /\ task[u].res = "already"
    /\ stacks[1].made /\ \A k \in Stacks \ {1} : ~stacks[k].made

\* C29: no coroutine is inside disconnect() while another is inside connect(),
\* and while a coroutine is suspended inside connect() no step of another
\* coroutine closes an exit stack or changes self.exit_stack or self.session.
C29_LockExcludesDisconnect ==
    /\ [](\A t, u \in Tasks : InConnect(t) => task[u].pc # "aclose")
    /\ [][\A t \in Tasks :
              InConnect(t) /\ task'[t] = task[t] =>
                 /\ exit_stack' = exit_stack
                 /\ session' = session
                 /\ \A k \in Stacks : stacks'[k].closed = stacks[k].closed]_vars

\* C30: whenever no connect() or disconnect() is running, the flag is true
\* exactly when a session and an exit stack are set; a disconnect() that has
\* returned leaves the flag false; and a connect() that returns normally leaves
\* the instance with a session.
C30_FlagMatchesSession ==
    /\ []((\A t \in Tasks : task[t].pc \in {"idle", "lockwait"}) =>
              (connected <=> (session # 0 /\ exit_stack # 0)))
    /\ [][\A t \in Tasks :
              task[t].pc = "aclose" /\ task'[t].pc = "idle" => ~connected']_vars
    /\ [][\A t \in Tasks :
              task'[t] # task[t] /\ task'[t].res \in {"connected", "already"} =>
                 session' # 0 /\ stacks'[session'].sess]_vars

\* the step in which connect() of the coroutine t raises to its caller
ConnectRaises(t) == InConnect(t) /\ task'[t].pc = "idle" /\ task'[t].res = "error"

\* C31: when connect() raises, no transport and no session is left open on any
\* exit stack, self.exit_stack and self.session are None, the flag is false and
\* the lock is free.
C31_FailureCleansUp ==
    [][\A t \in Tasks :
          ConnectRaises(t) =>
             /\ \A k \in Stacks : ~stacks'[k].stdio /\ ~stacks'[k].sess
             /\ exit_stack' = 0
             /\ session' = 0
             /\ ~connected'
             /\ conn_lock' = ""]_vars

\* C32: in an iteration whose fetched run requires approval the loop either
\* cancels and stops (no tool calls) or submits approvals, one for every MCP
\* tool call; it does not go back to polling such a run with nothing cancelled
\* and nothing submitted; and it stops at the first fetched status that is not
\* queued, in_progress or requires_action.
C32_ApprovalLoop ==
    /\ [][(loop.pc = "handle" /\ loop'.pc # "handle" /\ RequiresApproval(run)) =>
              /\ run.tool_calls = <<>> => loop'.cancelled /\ loop'.pc = "done"
              /\ run.tool_calls # <<>> =>
                    /\ Range(loop'.submitted) =
                         {run.tool_calls[i].id :
                            i \in {j \in DOMAIN run.tool_calls : run.tool_calls[j].kind = "mcp"}}
                    /\ ~loop'.cancelled
              /\ loop'.pc = "while" => loop'.submitted # <<>>]_vars
    /\ [][(loop.pc = "handle" /\ loop'.pc # "handle" /\ ~RequiresApproval(run)) =>
              loop'.submitted = <<>> /\ ~loop'.cancelled /\ loop'.pc = "while"]_vars
    /\ [][(loop.pc = "while" /\ loop'.pc # "while") =>
              loop'.pc = (IF run.status \in Polling THEN "fetch" ELSE "done")]_vars

\* C33: an endpoint invocation whose body has a missing or empty query / doc_id
\* ends with status 400 and without the search backend having been called; an
\* invocation with a non-empty parameter whose search succeeds ends with
\* status 200 and the JSON of the documents found.
C33_EndpointStatus ==
    http.pc = "done" =>
        /\ (http.shape = "dict" /\ http.arg \in {"missing", "empty"}) =>
              http.status = 400 /\ ~http.backend
        /\ (http.arg = "text" /\ http.results >= 0) =>
              /\ http.status = 200
              /\ http.body = [json |-> "documents", n |-> http.results]

====
